---- MODULE Spec2Model ----
(***************************************************************************)
(* The container's execution gateway (container/server.ts): the /run       *)
(* handler, executeClaudeCLI and the life cycle of the one child process   *)
(* it supervises, as a state machine.                                      *)
(*                                                                         *)
(* One /run request is followed from its arrival to its response and on    *)
(* through the events the runtime still delivers afterwards.  Every step   *)
(* of Next is one callback of the single-threaded event loop, run to       *)
(* completion: the request handler up to its await, one stream or child    *)
(* event, one timer.  The continuation of `await executeClaudeCLI` runs as *)
(* a microtask right after the callback that settles the promise, so it is *)
(* part of that callback's step.                                           *)
(*                                                                         *)
(* The runtime is free in what it delivers: data chunks until the streams  *)
(* close, 'exit' at most once, 'close' at most once, 'error' at most once  *)
(* and not necessarily followed by 'exit' or 'close'.                      *)
(*                                                                         *)
(* Spec starts from a container whose startup succeeded.  LaunchSpec       *)
(* starts before the startup code (setupCredentials, server.listen) and    *)
(* adds the /healthz probe; WorkerSpec is the worker (server.ts): its      *)
(* /health and /query routes and the AgentContainer constructor.           *)
(***************************************************************************)
EXTENDS Integers, Sequences, FiniteSets, TLC

\* ------------------------------------------------------------------ bounds
MaxNow == 1     \* the clock runs over 0..MaxNow
MaxOut == 2     \* data chunks delivered per execution, both streams together

\* ------------------------------------------------------- program constants
WARNING_MS == 10000
TIMEOUT_MS == 300000
HOUR_MS    == 3600000

\* ------------------------------------------------------------------ values
UNSET == "<unset>"     \* an environment variable, header or field that is absent

\* JavaScript truthiness of a string-or-undefined value: !!v
Truthy(v) == v # UNSET /\ v # ""

EnvVars == {"CLAUDE_USE_SUBSCRIPTION", "CLAUDE_ACCESS_TOKEN", "CLAUDE_REFRESH_TOKEN",
            "CLAUDE_EXPIRES_AT", "ANTHROPIC_API_KEY", "WORKER_API_KEY",
            "CLAUDE_BYPASS_BALANCE_CHECK"}

\* The values each variable of process.env is drawn from.
FlagVals    == {UNSET, "true", "false"}
AccessVals  == {"", "at"}
RefreshVals == {"", "rt"}
ExpiryVals  == {UNSET, "1"}
ApiKeyVals  == {UNSET, "sk"}
WorkerKeyVals == {UNSET, "k1"}

ParentEnvs ==
    { [v \in EnvVars |->
         CASE v = "CLAUDE_USE_SUBSCRIPTION" -> f
           [] v = "CLAUDE_ACCESS_TOKEN"     -> a
           [] v = "CLAUDE_REFRESH_TOKEN"    -> r
           [] v = "CLAUDE_EXPIRES_AT"       -> x
           [] v = "ANTHROPIC_API_KEY"       -> k
           [] v = "WORKER_API_KEY"          -> w
           [] OTHER                         -> UNSET] :
        f \in FlagVals, a \in AccessVals, r \in RefreshVals,
        x \in ExpiryVals, k \in ApiKeyVals, w \in WorkerKeyVals }

\* Number(s) for the epoch-millisecond strings of ExpiryVals.
NumberOf(s) == CASE s = "0" -> 0 [] s = "1" -> 1 [] s = "2" -> 2 [] OTHER -> 0

\* The x-api-key headers a request is drawn from.
HeaderVals == {UNSET, "k1", "k2"}

\* The request bodies: one that JSON.parse rejects, and objects given by their
\* prompt field (absent, empty, a text).
MALFORMED  == "<malformed>"
PromptVals == {UNSET, "", "hi"}
BodyVals   == {MALFORMED} \cup PromptVals

\* charCodeAt over the key strings.
CharCodes(s) == CASE s = "k1" -> <<107, 49>>
                  [] s = "k2" -> <<107, 50>>
                  [] s = "k"  -> <<107>>
                  [] s = ""   -> <<>>
                  [] OTHER    -> <<63>>

\* Output is text over two characters, a blank and a letter.
Chunks == {<<" ">>, <<"x">>}
ExitCodes == {"0", "1", "null"}

VARIABLES
    env,           \* process.env of the container
    now,           \* Date.now()
    pc,            \* the request: "idle", "awaiting" (suspended in await), "done"
    response,      \* the HTTP response written for the request
    spawns,        \* calls of spawn()
    childEnv,      \* the env object passed to spawn
    childArgs,     \* the args array passed to spawn
    stdinClosed,   \* claude.stdin.end() was called
    stdout,        \* let stdout
    stderr,        \* let stderr
    warningTimer,  \* "unset", "armed", "fired", "cleared"
    timeoutTimer,  \* "unset", "armed", "fired", "cleared"
    promise,       \* the promise executeClaudeCLI returned
    child,         \* what the runtime has delivered for the child so far
    startTime,     \* let startTime = Date.now()
    kills,         \* calls of claude.kill
    signals,       \* the signals those calls sent, in order
    callerGone,    \* the caller closed its connection before the response
    results,       \* times the awaiting handler was resumed with an outcome
    firstTerminal, \* the first of close / error / timeout observed, and what its
                   \* handler passed to resolve or reject
    lateTimers,    \* timer callbacks run after the first terminal event
    delivered,     \* the chunks the runtime delivered, per stream, in delivery order
    server,        \* "starting" until server.listen, then "listening"
    usingSubscription, \* const usingSubscription = setupCredentials()
    credFile,      \* the file at CREDENTIALS_PATH
    health,        \* the last response of GET /healthz
    request,       \* the body of the /run request, and whether its x-api-key header
                   \* is the configured key
    worker,        \* the worker: its env bindings and the results of /health, /query
                   \* and the AgentContainer constructor
    execs,         \* executions in flight at once: the closure state of each call of
                   \* executeClaudeCLI
    sync,          \* a run of a sync script and the bucket it uploads to
    compare        \* a pair of key strings and what the two timingSafeEqual say

vars == <<env, now, pc, response, spawns, childEnv, childArgs, stdinClosed, stdout,
          stderr, warningTimer, timeoutTimer, promise, child, startTime, kills, signals,
          results, firstTerminal, lateTimers, delivered, server, usingSubscription,
          credFile, health, callerGone, request, worker, execs, sync, compare>>

\* ---------------------------------------------------------------- promises
NoPromise == [st |-> "none", kind |-> "none", code |-> "none", text |-> <<>>]
Pending   == [st |-> "pending", kind |-> "none", code |-> "none", text |-> <<>>]

\* resolve(value): settles a pending promise, a no-op on a settled one.
Resolve(p, value) ==
    IF p.st = "pending"
      THEN [st |-> "fulfilled", kind |-> "success", code |-> "0", text |-> value]
      ELSE p

\* A reject that replaces an outcome already produced.
RejectOverwrites(p, kind, code, text) ==
    [st |-> "rejected", kind |-> kind, code |-> code, text |-> text]

\* reject(new Error(...)): settles a pending promise, a no-op on a settled one.
Reject(p, kind, code, text) ==
    IF p.st = "pending"
      THEN [st |-> "rejected", kind |-> kind, code |-> code, text |-> text]
      ELSE p

Settled(p) == p.st \in {"fulfilled", "rejected"}

\* ------------------------------------------------------------------ strings
IsSpace(c) == c = " "

RECURSIVE TrimStart(_)
TrimStart(s) == IF s # <<>> /\ IsSpace(Head(s)) THEN TrimStart(Tail(s)) ELSE s

RECURSIVE TrimEnd(_)
TrimEnd(s) ==
    IF s # <<>> /\ IsSpace(s[Len(s)]) THEN TrimEnd(SubSeq(s, 1, Len(s) - 1)) ELSE s

\* String.prototype.trim
Trim(s) == TrimEnd(TrimStart(s))

\* ------------------------------------------------------------ outcomes
SuccessOf(text)       == [st |-> "fulfilled", kind |-> "success", code |-> "0", text |-> text]
FailureOf(code, text) == [st |-> "rejected", kind |-> "failure", code |-> code, text |-> text]
TimeoutOf             == [st |-> "rejected", kind |-> "timeout", code |-> "none", text |-> <<>>]
SpawnErrorOf          == [st |-> "rejected", kind |-> "spawn", code |-> "none", text |-> <<>>]

\* ------------------------------------------------------------ API key check
RECURSIVE BitXor(_, _)
BitXor(x, y) ==
    IF x = 0 /\ y = 0 THEN 0
    ELSE (((x % 2) + (y % 2)) % 2) + (2 * BitXor(x \div 2, y \div 2))

RECURSIVE BitOr(_, _)
BitOr(x, y) ==
    IF x = 0 /\ y = 0 THEN 0
    ELSE (IF (x % 2) = 1 \/ (y % 2) = 1 THEN 1 ELSE 0) + (2 * BitOr(x \div 2, y \div 2))

\* A loop body that assigns instead of accumulating: the last position decides.
XorFoldLastOnly(a, b, i, result) ==
    IF Len(a) = 0 THEN result ELSE BitXor(a[Len(a)], b[Len(a)])

RECURSIVE XorFold(_, _, _, _)
XorFold(a, b, i, result) ==
    IF i > Len(a) THEN result
    ELSE XorFold(a, b, i + 1, BitOr(result, BitXor(a[i], b[i])))

\* A comparison that stops at the lengths.
timingSafeEqualLengthOnly(a, b) == Len(a) = Len(b)

timingSafeEqual(a, b) ==
    IF Len(a) # Len(b) THEN FALSE ELSE XorFold(a, b, 1, 0) = 0

\* The worker's copy of timingSafeEqual.
workerTimingSafeEqual(a, b) ==
    IF Len(a) # Len(b) THEN FALSE ELSE XorFold(a, b, 1, 0) = 0

\* The UTF-16 code units key strings are made of: k, 1, 2.
KeyAlphabet == {107, 49, 50}

\* The longest key string compared.
MaxKeyLen == 2

\* Strings as their sequences of code units.
KeyStrings == UNION {[1..n -> KeyAlphabet] : n \in 0..MaxKeyLen}

NoCompare == [done |-> FALSE, a |-> <<>>, b |-> <<>>, container |-> FALSE,
              worker |-> FALSE]

validateApiKey(e, providedKey) ==
    LET apiKey == e["WORKER_API_KEY"] IN
    IF ~Truthy(apiKey) THEN TRUE
    ELSE IF ~Truthy(providedKey) THEN FALSE
    ELSE timingSafeEqual(CharCodes(providedKey), CharCodes(apiKey))

\* A credential test that looks at the access token only.
hasOAuthAccessOnly(e) == Truthy(e["CLAUDE_ACCESS_TOKEN"])

\* --------------------------------------------------------------- auth mode
useSubscription(e) == e["CLAUDE_USE_SUBSCRIPTION"] = "true"
hasOAuth(e)  == Truthy(e["CLAUDE_ACCESS_TOKEN"]) /\ Truthy(e["CLAUDE_REFRESH_TOKEN"])
hasApiKey(e) == Truthy(e["ANTHROPIC_API_KEY"])

\* A selection that prefers valid-looking OAuth tokens whatever the flag says.
AuthModeIgnoresFlag(e) ==
    IF hasOAuth(e) THEN "subscription"
    ELSE IF hasApiKey(e) THEN "api_key"
    ELSE "none"

\* The branch executeClaudeCLI takes when it builds the child's environment.
AuthMode(e) ==
    IF useSubscription(e) /\ hasOAuth(e) THEN "subscription"
    ELSE IF hasApiKey(e) THEN "api_key"
    ELSE "none"

\* { ...process.env, CLAUDE_BYPASS_BALANCE_CHECK: "true" }
SpreadEnv(e) == [e EXCEPT !["CLAUDE_BYPASS_BALANCE_CHECK"] = "true"]

\* The env object as it is when spawn is called.
BuildChildEnv(e) ==
    LET base == SpreadEnv(e) IN
    CASE AuthMode(e) = "subscription" ->
           [base EXCEPT !["CLAUDE_USE_SUBSCRIPTION"] = "true"]
      [] AuthMode(e) = "api_key" ->
           [base EXCEPT !["CLAUDE_USE_SUBSCRIPTION"] = "false",
                        !["CLAUDE_ACCESS_TOKEN"]  = UNSET,
                        !["CLAUDE_REFRESH_TOKEN"] = UNSET,
                        !["CLAUDE_EXPIRES_AT"]    = UNSET]
      [] OTHER ->
           [base EXCEPT !["CLAUDE_USE_SUBSCRIPTION"] = "false"]

\* The credential check of the /run handler.
handlerHasOAuth(e)  == Truthy(e["CLAUDE_ACCESS_TOKEN"])
handlerHasApiKey(e) == Truthy(e["ANTHROPIC_API_KEY"])

\* --------------------------------------------------------------- responses
NoResponse == [status |-> 0, kind |-> "none", text |-> <<>>, authMode |-> "none"]

ErrorResponse(status, kind) ==
    [status |-> status, kind |-> kind, text |-> <<>>, authMode |-> "none"]

\* A handler that answers 200 whatever the awaited promise settled with.
ResponseAlways200(p, e) ==
    [status |-> 200, kind |-> "success", text |-> p.text,
     authMode |-> IF handlerHasOAuth(e) THEN "subscription" ELSE "api_key"]

\* What the handler writes once the awaited promise has settled.
ResponseOf(p, e) ==
    IF p.st = "fulfilled"
      THEN [status |-> 200, kind |-> "success", text |-> p.text,
            authMode |-> IF handlerHasOAuth(e) THEN "subscription" ELSE "api_key"]
      ELSE [status |-> 500, kind |-> p.kind, text |-> p.text, authMode |-> "none"]

\* The continuation of `await executeClaudeCLI(prompt)`, run when p settles.
Resume(p) ==
    IF pc = "awaiting" /\ Settled(p)
      THEN /\ response' = ResponseOf(p, env)
           /\ pc' = "done"
           /\ results' = results + 1
      ELSE UNCHANGED <<response, pc, results>>

\* ------------------------------------------------------------------ timers
\* A clearTimeout that was left out.
clearTimeoutForgotten(t) == t

\* clearTimeout(handle): a pending timer never fires, a fired one is unaffected.
clearTimeout(t) == IF t = "armed" THEN "cleared" ELSE t

\* ------------------------------------------------------------------ worker
\* Date.now() of the worker: every clock value is above any four-digit year.
CLOCK_BASE == 10000
DateNow == CLOCK_BASE + now

\* Numbers as JavaScript has them here: an integer or NaN.
Num(n) == [nan |-> FALSE, n |-> n]
NaN == [nan |-> TRUE, n |-> 0]

\* a > t for a number a and a clock value t: false for NaN.
Gt(a, t) == ~a.nan /\ a.n > t

\* CLAUDE_EXPIRES_AT bindings: absent, an epoch-millisecond string, the ISO
\* timestamp of the same instant, and text that is neither.
WorkerExpiryVals == {UNSET, "10001", "1970-01-01T00:00:10.001Z", "soon"}

\* parseInt(s): the leading decimal digits of s, NaN when there are none.
parseInt(s) == CASE s = "0" -> Num(0)
                 [] s = "1" -> Num(1)
                 [] s = "10001" -> Num(10001)
                 [] s = "1970-01-01T00:00:10.001Z" -> Num(1970)
                 [] OTHER -> NaN

\* An expiry read with parseInt.
ExpiryByParseInt(s) == parseInt(s)

\* isNaN(Number(s)) ? new Date(s).getTime() : Number(s)
ExpiryInstant(s) == CASE s = "0" -> Num(0)
                      [] s = "1" -> Num(1)
                      [] s = "10001" -> Num(10001)
                      [] s = "1970-01-01T00:00:10.001Z" -> Num(10001)
                      [] OTHER -> NaN

WorkerVars == {"CLAUDE_ACCESS_TOKEN", "CLAUDE_REFRESH_TOKEN", "CLAUDE_EXPIRES_AT",
               "ANTHROPIC_API_KEY", "WORKER_API_KEY", "API_KEY"}

\* The deprecated API_KEY binding.
LegacyKeyVals == {UNSET, "k2"}

WorkerEnvs ==
    {we \in [WorkerVars -> AccessVals \cup RefreshVals \cup WorkerExpiryVals
                            \cup ApiKeyVals \cup WorkerKeyVals \cup LegacyKeyVals] :
        /\ we["CLAUDE_ACCESS_TOKEN"] \in AccessVals
        /\ we["CLAUDE_REFRESH_TOKEN"] \in RefreshVals
        /\ we["CLAUDE_EXPIRES_AT"] \in WorkerExpiryVals
        /\ we["ANTHROPIC_API_KEY"] \in ApiKeyVals
        /\ we["WORKER_API_KEY"] \in WorkerKeyVals
        /\ we["API_KEY"] \in LegacyKeyVals}

\* x || d
OrElse(x, d) == IF Truthy(x) THEN x ELSE d

\* AgentContainer constructor: isOAuthValid
isOAuthValid(we, t) ==
    /\ Truthy(we["CLAUDE_ACCESS_TOKEN"])
    /\ Truthy(we["CLAUDE_REFRESH_TOKEN"])
    /\ Gt(parseInt(OrElse(we["CLAUDE_EXPIRES_AT"], "0")), t)

\* /health: isOAuthValid
healthIsOAuthValid(we, t) ==
    /\ Truthy(we["CLAUDE_ACCESS_TOKEN"])
    /\ Truthy(we["CLAUDE_REFRESH_TOKEN"])
    /\ Gt(parseInt(OrElse(we["CLAUDE_EXPIRES_AT"], "0")), t)

\* /query: hasOAuth
queryHasOAuth(we, t) ==
    /\ Truthy(we["CLAUDE_ACCESS_TOKEN"])
    /\ Truthy(we["CLAUDE_REFRESH_TOKEN"])
    /\ Gt(parseInt(OrElse(we["CLAUDE_EXPIRES_AT"], "0")), t)

NoEnvVars == [v \in EnvVars |-> UNSET]

\* An envVars object that hands the tokens over whatever the validity decision is.
EnvVarsPassThrough(we, valid) ==
    [v \in EnvVars |->
        CASE v = "CLAUDE_ACCESS_TOKEN" -> OrElse(we["CLAUDE_ACCESS_TOKEN"], "")
          [] v = "CLAUDE_REFRESH_TOKEN" -> OrElse(we["CLAUDE_REFRESH_TOKEN"], "")
          [] v = "CLAUDE_EXPIRES_AT" -> OrElse(we["CLAUDE_EXPIRES_AT"], "")
          [] v = "ANTHROPIC_API_KEY" -> OrElse(we["ANTHROPIC_API_KEY"], "")
          [] v = "CLAUDE_USE_SUBSCRIPTION" -> IF valid THEN "true" ELSE "false"
          [] v = "CLAUDE_BYPASS_BALANCE_CHECK" -> "true"
          [] OTHER -> UNSET]

\* An envVars object that also hands the worker's own key to the container.
EnvVarsWithWorkerKey(we, valid) ==
    [v \in EnvVars |->
        CASE v = "CLAUDE_ACCESS_TOKEN" ->
               IF valid THEN OrElse(we["CLAUDE_ACCESS_TOKEN"], "") ELSE ""
          [] v = "CLAUDE_REFRESH_TOKEN" ->
               IF valid THEN OrElse(we["CLAUDE_REFRESH_TOKEN"], "") ELSE ""
          [] v = "CLAUDE_EXPIRES_AT" ->
               IF valid THEN OrElse(we["CLAUDE_EXPIRES_AT"], "") ELSE ""
          [] v = "ANTHROPIC_API_KEY" -> OrElse(we["ANTHROPIC_API_KEY"], "")
          [] v = "CLAUDE_USE_SUBSCRIPTION" -> IF valid THEN "true" ELSE "false"
          [] v = "CLAUDE_BYPASS_BALANCE_CHECK" -> "true"
          [] v = "WORKER_API_KEY" -> we["WORKER_API_KEY"]
          [] OTHER -> UNSET]

\* The envVars object the worker hands to the container, given its validity decision.
EnvVarsFor(we, valid) ==
    [v \in EnvVars |->
        CASE v = "CLAUDE_ACCESS_TOKEN" ->
               IF valid THEN OrElse(we["CLAUDE_ACCESS_TOKEN"], "") ELSE ""
          [] v = "CLAUDE_REFRESH_TOKEN" ->
               IF valid THEN OrElse(we["CLAUDE_REFRESH_TOKEN"], "") ELSE ""
          [] v = "CLAUDE_EXPIRES_AT" ->
               IF valid THEN OrElse(we["CLAUDE_EXPIRES_AT"], "") ELSE ""
          [] v = "ANTHROPIC_API_KEY" -> OrElse(we["ANTHROPIC_API_KEY"], "")
          [] v = "CLAUDE_USE_SUBSCRIPTION" -> IF valid THEN "true" ELSE "false"
          [] v = "CLAUDE_BYPASS_BALANCE_CHECK" -> "true"
          [] OTHER -> UNSET]

\* oauthExpiresAt: null, or the ISO text of a time value.
NullDate == [null |-> TRUE, ms |-> 0]
IsoDateOf(a) == [null |-> FALSE, ms |-> a.n]

NoWorkerHealth == [status |-> 0, authMode |-> "none", oauthExpired |-> FALSE,
                   oauthExpiresAt |-> NullDate, skillsAvailable |-> FALSE,
                   reads |-> 0, at |-> 0]
NoWorkerQuery ==
    [handled |-> FALSE, status |-> 0, kind |-> "none", decided |-> FALSE,
     hasOAuth |-> FALSE, at |-> 0, forwarded |-> FALSE, envVars |-> NoEnvVars,
     prompt |-> UNSET, skill |-> UNSET, reads |-> 0, forwardedPrompt |-> <<>>,
     keyMatches |-> FALSE]
NoCtor == [built |-> FALSE, at |-> 0, envVars |-> NoEnvVars]

\* The catalogue routes of the worker: the three that return an index and the three
\* that return one item of it.
ListRoutes == {"/skills", "/agents", "/framework"}
ItemRoutes == {"/skills/:name", "/agents/:category/:name", "/framework/:name"}

\* The item names of the requests; an index lists the names of IndexedSkills.
ItemVals == {"s1", "s2"}

NoRoute == [handled |-> FALSE, path |-> "none", status |-> 0, kind |-> "none",
            reads |-> 0, keyMatches |-> FALSE]

NoWorker == [env |-> [v \in WorkerVars |-> UNSET], bucket |-> "unbound",
             health |-> NoWorkerHealth, query |-> NoWorkerQuery, ctor |-> NoCtor,
             route |-> NoRoute]

\* The SKILLS_BUCKET binding: absent; bound with no index.json; bound with reads that
\* throw; bound with an index whose skill file is missing; bound and complete.
BucketVals == {"unbound", "no_index", "throws", "file_missing", "ok"}

\* The skills that index.json lists, when there is one.
IndexedSkills == {"s1"}

\* The skill field of a /query body.
SkillVals == {UNSET, "s1", "s2"}

\* The template literal that wraps the text of a skill, as its pieces in order.
SkillContextOf(skill) ==
    <<"\n\n---\n\n# Active Skill: ", skill, "\n\n", "<text of the skill file>",
      "\n\n---\n\n">>

\* The skill loading of /query: the context it builds ('' as the empty sequence) and
\* the bucket reads it makes.
LoadSkill(bucket, skill) ==
    IF ~Truthy(skill) THEN [context |-> <<>>, reads |-> 0]
    ELSE IF bucket = "unbound" THEN [context |-> <<>>, reads |-> 0]
    ELSE IF bucket \in {"throws", "no_index"} THEN [context |-> <<>>, reads |-> 1]
    ELSE IF skill \notin IndexedSkills THEN [context |-> <<>>, reads |-> 1]
    ELSE IF bucket = "file_missing" THEN [context |-> <<>>, reads |-> 2]
    ELSE [context |-> SkillContextOf(skill), reads |-> 2]

\* A prompt replaced by the skill context.
EnrichReplaces(context, prompt) == IF context # <<>> THEN context ELSE <<prompt>>

\* skillContext ? `${skillContext}${prompt}` : prompt, as pieces in order.
Enrich(context, prompt) == IF context # <<>> THEN context \o <<prompt>> ELSE <<prompt>>

\* c.env.WORKER_API_KEY || c.env.API_KEY
ConfiguredKey(we) == OrElse(we["WORKER_API_KEY"], we["API_KEY"])

\* A key check that lets every request pass when no key is configured.
workerValidateApiKeyOpen(apiKey, providedKey) ==
    IF ~Truthy(apiKey) THEN 0
    ELSE IF ~Truthy(providedKey) THEN 401
    ELSE IF ~workerTimingSafeEqual(CharCodes(providedKey), CharCodes(apiKey)) THEN 401
    ELSE 0

\* The status of the error response of the worker's validateApiKey, 0 for null.
workerValidateApiKey(apiKey, providedKey) ==
    IF ~Truthy(apiKey) THEN 500
    ELSE IF ~Truthy(providedKey) THEN 401
    ELSE IF ~workerTimingSafeEqual(CharCodes(providedKey), CharCodes(apiKey)) THEN 401
    ELSE 0

\* What a catalogue route does after the key check passed: its status, the kind of
\* its response and the bucket reads it made.
ServeCatalogue(bucket, path, name) ==
    IF bucket = "unbound" THEN [status |-> 500, kind |-> "no_bucket", reads |-> 0]
    ELSE IF bucket = "throws" THEN [status |-> 500, kind |-> "failed", reads |-> 1]
    ELSE IF bucket = "no_index" THEN [status |-> 404, kind |-> "no_index", reads |-> 1]
    ELSE IF path \in ListRoutes THEN [status |-> 200, kind |-> "index", reads |-> 1]
    ELSE IF name \notin IndexedSkills
           THEN [status |-> 404, kind |-> "not_listed", reads |-> 1]
    ELSE IF bucket = "file_missing"
           THEN [status |-> 404, kind |-> "no_file", reads |-> 2]
    ELSE [status |-> 200, kind |-> "item", reads |-> 2]

\* ------------------------------------------------------ concurrent executions
\* The calls of executeClaudeCLI that are in flight at once.
ExecIds == {"A", "B"}

\* Chunks each of them may receive, over both streams.
MaxPairOut == 1

\* The closure of one call: its buffers, timers, promise and child, with what its
\* caller was resumed with and the first terminal event it saw.
NoExec ==
    [started |-> FALSE, stdout |-> <<>>, stderr |-> <<>>, warningTimer |-> "unset",
     timeoutTimer |-> "unset", promise |-> NoPromise, closed |-> FALSE,
     errored |-> FALSE, kills |-> 0, result |-> NoPromise, results |-> 0,
     first |-> [event |-> "none", outcome |-> NoPromise]]

\* State kept at module level, which every call would share.
SetAll(es, i, rec) == [j \in ExecIds |-> IF es[j].started \/ j = i THEN rec ELSE es[j]]

\* The variables of a call are local to its promise executor.
SetOwn(es, i, rec) == [es EXCEPT ![i] = rec]

\* What the caller of execution x is resumed with once its promise p has settled.
ResumeExec(x, p) ==
    IF x.results = 0 /\ Settled(p)
      THEN [x EXCEPT !.promise = p, !.result = p, !.results = 1]
      ELSE [x EXCEPT !.promise = p]

\* The first terminal event of execution x.
FirstOf(x, event, outcome) ==
    IF x.first.event = "none" THEN [event |-> event, outcome |-> outcome] ELSE x.first

\* ----------------------------------------------------------------- startup
\* The outcomes of the file system calls of setupCredentials.
FsVals == {"ok", "mkdir_fails", "write_fails"}

NoFile == [written |-> FALSE, accessToken |-> UNSET, refreshToken |-> UNSET,
           expiresAt |-> NaN, mtime |-> 0]

\* new Date(ms).toISOString() returns for a time value and throws for NaN.
ToISOStringReturns(ms) == ~ms.nan

\* setupCredentials at time t over a file system behaving as fsys: what it returns
\* and what it leaves at CREDENTIALS_PATH.
setupCredentials(e, t, fsys) ==
    IF ~Truthy(e["CLAUDE_ACCESS_TOKEN"]) \/ ~Truthy(e["CLAUDE_REFRESH_TOKEN"])
      THEN [ok |-> FALSE, file |-> NoFile]
    ELSE IF fsys # "ok"
      THEN [ok |-> FALSE, file |-> NoFile]
    ELSE LET expiresAtMs == IF Truthy(e["CLAUDE_EXPIRES_AT"])
                              THEN ExpiryInstant(e["CLAUDE_EXPIRES_AT"])
                              ELSE Num(t + HOUR_MS)
         IN  \* writeFileSync has run when new Date(expiresAtMs).toISOString() is
             \* evaluated for the log line; it throws a RangeError for NaN, inside the
             \* try block, and the catch returns false.
             [ok |-> ToISOStringReturns(expiresAtMs),
              file |-> [written |-> TRUE,
                        accessToken |-> e["CLAUDE_ACCESS_TOKEN"],
                        refreshToken |-> e["CLAUDE_REFRESH_TOKEN"],
                        expiresAt |-> expiresAtMs,
                        mtime |-> t]]

NoHealth == [status |-> 0, authMode |-> "none"]
NoRequest == [body |-> UNSET, handled |-> FALSE, keyMatches |-> FALSE]

bootVars == <<server, usingSubscription, credFile, health, callerGone>>

\* ------------------------------------------------------------- sync scripts
\* The two scripts, named by the bucket prefix they upload under.
SyncScripts == {"agents", "framework"}

\* The .md files a scan can find, as paths relative to the scanned directory.
LocalFiles == {"a.md", "b.md", "c.md"}

\* The longest list of files a scan returns.
MaxFiles == 2

\* The lists findAgents / findFrameworkFiles can return: each file once, in the
\* order readdir gives.
ScanResults ==
    {s \in UNION {[1..n -> LocalFiles] : n \in 0..MaxFiles} :
        \A i, j \in DOMAIN s : i # j => s[i] # s[j]}

\* The r2Key of a file: `agents/${agent.path}` or `framework/${file.path}`.
R2Key(script, path) == <<script, "/", path>>

\* The r2Key of the index: 'agents/index.json' or 'framework/index.json'.
IndexKey(script) == <<script, "/", "index.json">>

\* The key the worker's item route reads for an index entry.
LookupKey(script, path) == <<script, "/", path>>

\* The index object of the bucket: absent, or its count and the paths it lists.
NoIndex == [present |-> FALSE, count |-> 0, paths |-> <<>>]

NoSync == [script |-> "none", status |-> "idle", found |-> <<>>, objects |-> {},
           index |-> NoIndex, uploaded |-> 0]

\* No request has arrived and no child exists.
Idle ==
    /\ now = 0
    /\ pc = "idle"
    /\ response = NoResponse
    /\ spawns = 0
    /\ childEnv = [v \in EnvVars |-> UNSET]
    /\ childArgs = <<>>
    /\ stdinClosed = FALSE
    /\ stdout = <<>>
    /\ stderr = <<>>
    /\ warningTimer = "unset"
    /\ timeoutTimer = "unset"
    /\ promise = NoPromise
    /\ child = [exit |-> "none", closed |-> FALSE, errored |-> FALSE]
    /\ startTime = 0
    /\ kills = 0
    /\ signals = <<>>
    /\ callerGone = FALSE
    /\ results = 0
    /\ firstTerminal = [event |-> "none", code |-> "none", outcome |-> NoPromise]
    /\ lateTimers = 0
    /\ delivered = [out |-> <<>>, err |-> <<>>]
    /\ health = NoHealth
    /\ request = NoRequest
    /\ execs = [i \in ExecIds |-> NoExec]
    /\ sync = NoSync
    /\ compare = NoCompare

\* The container after a startup whose file system calls succeeded.
Init ==
    /\ env \in ParentEnvs
    /\ worker = NoWorker
    /\ Idle
    /\ server = "listening"
    /\ usingSubscription = setupCredentials(env, now, "ok").ok
    /\ credFile = setupCredentials(env, now, "ok").file

\* Environments of the startup specification: those of ParentEnvs, and the same with
\* the other forms of expiry.
LaunchEnvs ==
    {[pe EXCEPT !["CLAUDE_EXPIRES_AT"] = x] :
        pe \in ParentEnvs, x \in ExpiryVals \cup WorkerExpiryVals}

\* The container process before its startup code has run.
LaunchInit ==
    /\ env \in LaunchEnvs
    /\ worker = NoWorker
    /\ Idle
    /\ server = "starting"
    /\ usingSubscription = FALSE
    /\ credFile = NoFile

execVars == <<spawns, childEnv, childArgs, stdinClosed, stdout, stderr, warningTimer,
              timeoutTimer, promise, child, startTime, kills, signals, results, firstTerminal,
              lateTimers, delivered>>

\* A launcher that leaves the child's stdin open.
StdinLeftOpen(hasStdin) == FALSE

\* claude.stdin.end() right after spawn
StdinEnd(hasStdin) == hasStdin

\* A check of the credentials file that removes it.
statSyncRemoves(file) == NoFile

\* fs.statSync(CREDENTIALS_PATH), in try/catch: it reads the file's metadata (or
\* fails, which is logged) and leaves the file as it is.
statSync(file) == file

\* The promise executor of executeClaudeCLI, up to its return.
executeClaudeCLI(prompt) ==
    /\ childArgs' = <<"--print", "--output-format", "text", prompt>>
    /\ childEnv' = BuildChildEnv(env)
    /\ spawns' = spawns + 1
    /\ stdout' = <<>>
    /\ stderr' = <<>>
    /\ startTime' = now
    /\ stdinClosed' = StdinEnd(TRUE)
    /\ warningTimer' = "armed"
    /\ timeoutTimer' = "armed"
    /\ promise' = Pending
    /\ credFile' = statSync(credFile)
    /\ UNCHANGED <<child, kills, signals, results, firstTerminal, lateTimers, delivered>>

\* A server whose handler is called before the startup code has finished.
AcceptingAlways(srv) == TRUE

\* The request handler is called for connections only once server.listen has run,
\* which the startup code does after setupCredentials() has returned.
Accepting(srv) == srv = "listening"

\* POST /run
HandleRun(providedKey, body) ==
    /\ Accepting(server)
    /\ pc = "idle"
    /\ request' = [body |-> body, handled |-> TRUE,
                   keyMatches |-> Truthy(providedKey) /\ providedKey = env["WORKER_API_KEY"]]
    /\ IF ~validateApiKey(env, providedKey)
         THEN /\ response' = ErrorResponse(401, "Unauthorized")
              /\ pc' = "done"
              /\ UNCHANGED <<execVars, credFile>>
       ELSE IF body = MALFORMED
         THEN /\ response' = ErrorResponse(500, "SyntaxError")
              /\ pc' = "done"
              /\ UNCHANGED <<execVars, credFile>>
       ELSE IF ~Truthy(body)
         THEN /\ response' = ErrorResponse(400, "No prompt provided")
              /\ pc' = "done"
              /\ UNCHANGED <<execVars, credFile>>
       ELSE IF ~handlerHasOAuth(env) /\ ~handlerHasApiKey(env)
         THEN /\ response' = ErrorResponse(500, "No authentication configured")
              /\ pc' = "done"
              /\ UNCHANGED <<execVars, credFile>>
       ELSE /\ executeClaudeCLI(body)
            /\ pc' = "awaiting"
            /\ UNCHANGED response
    /\ UNCHANGED <<env, now, server, usingSubscription, health, callerGone, worker,
                   execs, sync, compare>>

Spawned == spawns > 0

\* Records the first terminal event and what its handler settles the promise with.
NoteTerminal(event, code, outcome) ==
    firstTerminal' = IF firstTerminal.event = "none"
                       THEN [event |-> event, code |-> code, outcome |-> outcome]
                       ELSE firstTerminal

\* A data handler that keeps only the latest chunk.
ReplaceData(buf, chunk) == chunk

\* buf += data.toString()
AppendData(buf, chunk) == buf \o chunk

\* claude.stdout.on("data")
StdoutData(chunk) ==
    /\ Spawned
    /\ ~child.closed
    /\ Len(stdout) + Len(stderr) < MaxOut
    /\ stdout' = AppendData(stdout, chunk)
    /\ delivered' = [delivered EXCEPT !.out = Append(@, chunk)]
    /\ UNCHANGED <<env, now, pc, response, spawns, childEnv, childArgs, stdinClosed,
                   stderr, warningTimer, timeoutTimer, promise, child, startTime, kills, signals,
                   results, firstTerminal, lateTimers>>
    /\ UNCHANGED <<bootVars, request, worker, execs, sync, compare>>

\* claude.stderr.on("data")
StderrData(chunk) ==
    /\ Spawned
    /\ ~child.closed
    /\ Len(stdout) + Len(stderr) < MaxOut
    /\ stderr' = AppendData(stderr, chunk)
    /\ delivered' = [delivered EXCEPT !.err = Append(@, chunk)]
    /\ UNCHANGED <<env, now, pc, response, spawns, childEnv, childArgs, stdinClosed,
                   stdout, warningTimer, timeoutTimer, promise, child, startTime, kills, signals,
                   results, firstTerminal, lateTimers>>
    /\ UNCHANGED <<bootVars, request, worker, execs, sync, compare>>

\* claude.on("error")
ChildError ==
    /\ Spawned
    /\ ~child.errored
    /\ child' = [child EXCEPT !.errored = TRUE]
    /\ promise' = Reject(promise, "spawn", "none", <<>>)
    /\ NoteTerminal("error", "none", SpawnErrorOf)
    /\ Resume(promise')
    /\ UNCHANGED <<env, now, spawns, childEnv, childArgs, stdinClosed, stdout, stderr,
                   warningTimer, timeoutTimer, startTime, kills, signals, lateTimers, delivered>>
    /\ UNCHANGED <<bootVars, request, worker, execs, sync, compare>>

\* An exit listener that cancels the hard deadline.
ChildExitClearsTimeout(code) ==
    /\ Spawned
    /\ child.exit = "none"
    /\ ~child.closed
    /\ child' = [child EXCEPT !.exit = code]
    /\ timeoutTimer' = clearTimeout(timeoutTimer)
    /\ UNCHANGED <<env, now, pc, response, spawns, childEnv, childArgs, stdinClosed,
                   stdout, stderr, warningTimer, promise, startTime, kills, signals,
                   results, firstTerminal, lateTimers, delivered>>
    /\ UNCHANGED <<bootVars, request, worker, execs, sync, compare>>

\* claude.on("exit")
ChildExit(code) ==
    /\ Spawned
    /\ child.exit = "none"
    /\ ~child.closed
    /\ child' = [child EXCEPT !.exit = code]
    /\ UNCHANGED <<env, now, pc, response, spawns, childEnv, childArgs, stdinClosed,
                   stdout, stderr, warningTimer, timeoutTimer, promise, startTime, kills, signals,
                   results, firstTerminal, lateTimers, delivered>>
    /\ UNCHANGED <<bootVars, request, worker, execs, sync, compare>>

\* A test of the exit code by falsiness, which takes a missing code for 0.
IsFalsyExit(code) == code \in {"0", "null"}

\* code === 0
IsZeroExit(code) == code = "0"

\* What the first 'close' listener passes to resolve or reject.
CloseOutcome(code) ==
    IF IsZeroExit(code)
      THEN SuccessOf(Trim(stdout))
      ELSE FailureOf(code, IF stderr # <<>> THEN stderr ELSE stdout)

\* The two claude.on("close") listeners, in registration order.
ChildClose(code) ==
    /\ Spawned
    /\ ~child.closed
    /\ child.exit # "none" => code = child.exit
    /\ child' = [child EXCEPT !.closed = TRUE]
    /\ promise' = IF IsZeroExit(code)
                    THEN Resolve(promise, Trim(stdout))
                    ELSE Reject(promise, "failure", code,
                                IF stderr # <<>> THEN stderr ELSE stdout)
    /\ timeoutTimer' = clearTimeout(timeoutTimer)
    /\ warningTimer' = clearTimeout(warningTimer)
    /\ NoteTerminal("close", code, CloseOutcome(code))
    /\ Resume(promise')
    /\ UNCHANGED <<env, now, spawns, childEnv, childArgs, stdinClosed, stdout, stderr,
                   startTime, kills, signals, lateTimers, delivered>>
    /\ UNCHANGED <<bootVars, request, worker, execs, sync, compare>>

\* A soft deadline that reports an error to the caller.
WarningRejects ==
    /\ warningTimer = "armed"
    /\ warningTimer' = "fired"
    /\ lateTimers' = lateTimers + (IF firstTerminal.event # "none" THEN 1 ELSE 0)
    /\ promise' = Reject(promise, "timeout", "none", <<>>)
    /\ Resume(promise')
    /\ UNCHANGED <<env, now, spawns, childEnv, childArgs, stdinClosed, stdout, stderr,
                   timeoutTimer, child, startTime, kills, signals, firstTerminal, delivered>>
    /\ UNCHANGED <<bootVars, request, worker, execs, sync, compare>>

\* The warningTimer callback, 10 s after the spawn.
WarningFires ==
    /\ warningTimer = "armed"
    /\ warningTimer' = "fired"
    /\ lateTimers' = lateTimers + (IF firstTerminal.event # "none" THEN 1 ELSE 0)
    /\ UNCHANGED <<env, now, pc, response, spawns, childEnv, childArgs, stdinClosed,
                   stdout, stderr, timeoutTimer, promise, child, startTime, kills, signals,
                   results, firstTerminal, delivered>>
    /\ UNCHANGED <<bootVars, request, worker, execs, sync, compare>>

\* claude.kill("SIGKILL")
KillSignal == "SIGKILL"

\* A hard deadline that kills the child and leaves the result to its close event.
TimeoutKillsOnly ==
    /\ timeoutTimer = "armed"
    /\ WARNING_MS < TIMEOUT_MS => warningTimer # "armed"
    /\ timeoutTimer' = "fired"
    /\ warningTimer' = clearTimeout(warningTimer)
    /\ kills' = kills + 1
    /\ signals' = Append(signals, KillSignal)
    /\ lateTimers' = lateTimers + (IF firstTerminal.event # "none" THEN 1 ELSE 0)
    /\ UNCHANGED <<env, now, pc, response, spawns, childEnv, childArgs, stdinClosed,
                   stdout, stderr, promise, child, startTime, results, firstTerminal,
                   delivered>>
    /\ UNCHANGED <<bootVars, request, worker, execs, sync, compare>>

\* The timeoutHandle callback, 300 s after the spawn: it runs after the warning
\* timer's time has come.
TimeoutFires ==
    /\ timeoutTimer = "armed"
    /\ WARNING_MS < TIMEOUT_MS => warningTimer # "armed"
    /\ timeoutTimer' = "fired"
    /\ warningTimer' = clearTimeout(warningTimer)
    /\ kills' = kills + 1
    /\ signals' = Append(signals, KillSignal)
    /\ promise' = Reject(promise, "timeout", "none", <<>>)
    /\ lateTimers' = lateTimers + (IF firstTerminal.event # "none" THEN 1 ELSE 0)
    /\ NoteTerminal("timeout", "none", TimeoutOf)
    /\ Resume(promise')
    /\ UNCHANGED <<env, now, spawns, childEnv, childArgs, stdinClosed, stdout, stderr,
                   child, startTime, delivered>>
    /\ UNCHANGED <<bootVars, request, worker, execs, sync, compare>>

\* Time passes before the request arrives.  Date.now() is read for a decision
\* only then; the later reads feed the elapsed times of log lines.
Tick ==
    /\ pc = "idle"
    /\ now < MaxNow
    /\ now' = now + 1
    /\ UNCHANGED <<env, pc, response, execVars>>
    /\ UNCHANGED <<bootVars, request, worker, execs, sync, compare>>

\* GET /healthz
HandleHealthz ==
    /\ Accepting(server)
    /\ health' = [status |-> 200,
                  authMode |-> IF Truthy(env["CLAUDE_ACCESS_TOKEN"])
                                 THEN "subscription" ELSE "api_key"]
    /\ UNCHANGED <<env, now, pc, response, execVars, server, usingSubscription,
                   credFile, callerGone, request, worker, execs, sync, compare>>

\* The startup code: setupCredentials(), then server.listen().
Boot(fsys) ==
    /\ server = "starting"
    /\ server' = "listening"
    /\ usingSubscription' = setupCredentials(env, now, fsys).ok
    /\ credFile' = setupCredentials(env, now, fsys).file
    /\ UNCHANGED <<env, now, pc, response, execVars, health, callerGone, request,
                   worker, execs, sync, compare>>

Next ==
    \/ \E h \in HeaderVals, b \in BodyVals : HandleRun(h, b)
    \/ \E c \in Chunks : StdoutData(c)
    \/ \E c \in Chunks : StderrData(c)
    \/ ChildError
    \/ \E code \in ExitCodes : ChildExit(code)
    \/ \E code \in ExitCodes : ChildClose(code)
    \/ WarningFires
    \/ TimeoutFires
    \/ Tick

Spec == Init /\ [][Next]_vars

\* new AgentContainer(ctx, env)
WorkerConstruct ==
    /\ ~worker.ctor.built
    /\ worker' = [worker EXCEPT !.ctor =
                    [built |-> TRUE, at |-> DateNow,
                     envVars |-> EnvVarsFor(worker.env, isOAuthValid(worker.env, DateNow))]]
    /\ UNCHANGED <<env, now, pc, response, execVars, bootVars, request, execs, sync, compare>>

\* A /health handler whose bucket reads are not guarded: a read that throws makes
\* the request fail.
HealthOfUnguarded(we, bucket, t) ==
    IF bucket = "throws"
      THEN [NoWorkerHealth EXCEPT !.status = 500, !.reads = 1, !.at = t]
      ELSE LET valid == healthIsOAuthValid(we, t) IN
           [status |-> 200,
            authMode |-> IF valid THEN "subscription"
                         ELSE IF Truthy(we["ANTHROPIC_API_KEY"]) THEN "api_key"
                         ELSE "none",
            oauthExpired |-> ~valid /\ Truthy(we["CLAUDE_ACCESS_TOKEN"]),
            oauthExpiresAt |-> IF valid
                                 THEN IsoDateOf(parseInt(OrElse(we["CLAUDE_EXPIRES_AT"], "0")))
                                 ELSE NullDate,
            skillsAvailable |-> bucket \in {"file_missing", "ok"},
            reads |-> IF bucket = "unbound" THEN 0 ELSE 3,
            at |-> t]

\* The response of GET /health at time t: the three index reads each sit in their
\* own try/catch, and a bucket that is not bound is not read.
HealthOf(we, bucket, t) ==
    LET valid == healthIsOAuthValid(we, t) IN
    [status |-> 200,
     authMode |-> IF valid THEN "subscription"
                  ELSE IF Truthy(we["ANTHROPIC_API_KEY"]) THEN "api_key"
                  ELSE "none",
     oauthExpired |-> ~valid /\ Truthy(we["CLAUDE_ACCESS_TOKEN"]),
     oauthExpiresAt |-> IF valid
                          THEN IsoDateOf(parseInt(OrElse(we["CLAUDE_EXPIRES_AT"], "0")))
                          ELSE NullDate,
     skillsAvailable |-> bucket \in {"file_missing", "ok"},
     reads |-> IF bucket = "unbound" THEN 0 ELSE 3,
     at |-> t]

\* GET /health of the worker
WorkerHealth ==
    /\ worker' = [worker EXCEPT !.health = HealthOf(worker.env, worker.bucket, DateNow)]
    /\ UNCHANGED <<env, now, pc, response, execVars, bootVars, request, execs, sync, compare>>

\* GET of one of the catalogue routes of the worker.
WorkerRoute(path, providedKey, name) ==
    /\ ~worker.route.handled
    /\ LET apiKey == ConfiguredKey(worker.env)
           authError == workerValidateApiKey(apiKey, providedKey)
           r == [NoRoute EXCEPT !.handled = TRUE, !.path = path,
                                !.keyMatches = Truthy(providedKey)
                                                 /\ providedKey = apiKey]
           served == ServeCatalogue(worker.bucket, path, name)
       IN  worker' = [worker EXCEPT !.route =
             IF authError # 0
               THEN [r EXCEPT !.status = authError,
                              !.kind = IF authError = 500 THEN "no_key"
                                                          ELSE "unauthorized"]
               ELSE [r EXCEPT !.status = served.status, !.kind = served.kind,
                              !.reads = served.reads]]
    /\ UNCHANGED <<env, now, pc, response, execVars, bootVars, request, execs, sync, compare>>

\* POST /query of the worker, up to the request it sends to the container.
WorkerQuery(providedKey, body, skill) ==
    /\ ~worker.query.handled
    /\ LET apiKey == ConfiguredKey(worker.env)
           authError == workerValidateApiKey(apiKey, providedKey)
           valid == queryHasOAuth(worker.env, DateNow)
           prompt == IF body = MALFORMED THEN UNSET ELSE body
           loaded == LoadSkill(worker.bucket, IF body = MALFORMED THEN UNSET ELSE skill)
           q == [NoWorkerQuery EXCEPT !.handled = TRUE,
                                      !.keyMatches = Truthy(providedKey)
                                                       /\ providedKey = apiKey]
           d == [q EXCEPT !.decided = TRUE, !.hasOAuth = valid, !.at = DateNow]
       IN  worker' = [worker EXCEPT !.query =
             IF authError # 0
               THEN [q EXCEPT !.status = authError, !.kind = "Unauthorized"]
             ELSE IF ~valid /\ ~Truthy(worker.env["ANTHROPIC_API_KEY"])
               THEN [d EXCEPT !.status = 500, !.kind = "No valid authentication configured"]
             ELSE IF ~Truthy(prompt)
               THEN [d EXCEPT !.status = 400, !.kind = "No prompt provided"]
             ELSE [d EXCEPT !.forwarded = TRUE, !.prompt = prompt,
                            !.skill = IF body = MALFORMED THEN UNSET ELSE skill,
                            !.reads = loaded.reads,
                            !.forwardedPrompt = Enrich(loaded.context, prompt),
                            !.envVars = EnvVarsFor(worker.env, valid)]]
    /\ UNCHANGED <<env, now, pc, response, execVars, bootVars, request, execs, sync, compare>>

\* executeClaudeCLI called for execution i.
StartExec(i) ==
    /\ ~execs[i].started
    /\ execs' = SetOwn(execs, i,
                    [NoExec EXCEPT !.started = TRUE, !.warningTimer = "armed",
                                   !.timeoutTimer = "armed", !.promise = Pending])
    /\ UNCHANGED <<env, now, pc, response, execVars, bootVars, request, worker, sync, compare>>

\* claude.stdout.on("data") of execution i
ExecStdout(i, chunk) ==
    /\ execs[i].started
    /\ ~execs[i].closed
    /\ Len(execs[i].stdout) + Len(execs[i].stderr) < MaxPairOut
    /\ execs' = SetOwn(execs, i,
                    [execs[i] EXCEPT !.stdout = AppendData(@, chunk)])
    /\ UNCHANGED <<env, now, pc, response, execVars, bootVars, request, worker, sync, compare>>

\* claude.stderr.on("data") of execution i
ExecStderr(i, chunk) ==
    /\ execs[i].started
    /\ ~execs[i].closed
    /\ Len(execs[i].stdout) + Len(execs[i].stderr) < MaxPairOut
    /\ execs' = SetOwn(execs, i,
                    [execs[i] EXCEPT !.stderr = AppendData(@, chunk)])
    /\ UNCHANGED <<env, now, pc, response, execVars, bootVars, request, worker, sync, compare>>

\* claude.on("error") of execution i
ExecError(i) ==
    /\ execs[i].started
    /\ ~execs[i].errored
    /\ LET x == execs[i]
           p == Reject(x.promise, "spawn", "none", <<>>)
       IN  execs' = SetOwn(execs, i,
                      ResumeExec([x EXCEPT !.errored = TRUE,
                                           !.first = FirstOf(x, "error", SpawnErrorOf)],
                                 p))
    /\ UNCHANGED <<env, now, pc, response, execVars, bootVars, request, worker, sync, compare>>

\* The two claude.on("close") listeners of execution i
ExecClose(i, code) ==
    /\ execs[i].started
    /\ ~execs[i].closed
    /\ LET x == execs[i]
           excerpt == IF x.stderr # <<>> THEN x.stderr ELSE x.stdout
           p == IF IsZeroExit(code)
                  THEN Resolve(x.promise, Trim(x.stdout))
                  ELSE Reject(x.promise, "failure", code, excerpt)
           outcome == IF IsZeroExit(code)
                        THEN SuccessOf(Trim(x.stdout))
                        ELSE FailureOf(code, excerpt)
       IN  execs' = SetOwn(execs, i,
                      ResumeExec([x EXCEPT !.closed = TRUE,
                                           !.timeoutTimer = clearTimeout(@),
                                           !.warningTimer = clearTimeout(@),
                                           !.first = FirstOf(x, "close", outcome)],
                                 p))
    /\ UNCHANGED <<env, now, pc, response, execVars, bootVars, request, worker, sync, compare>>

\* The warningTimer callback of execution i
ExecWarning(i) ==
    /\ execs[i].warningTimer = "armed"
    /\ execs' = SetOwn(execs, i, [execs[i] EXCEPT !.warningTimer = "fired"])
    /\ UNCHANGED <<env, now, pc, response, execVars, bootVars, request, worker, sync, compare>>

\* The timeoutHandle callback of execution i
ExecTimeout(i) ==
    /\ execs[i].timeoutTimer = "armed"
    /\ WARNING_MS < TIMEOUT_MS => execs[i].warningTimer # "armed"
    /\ LET x == execs[i]
           p == Reject(x.promise, "timeout", "none", <<>>)
       IN  execs' = SetOwn(execs, i,
                      ResumeExec([x EXCEPT !.timeoutTimer = "fired",
                                           !.warningTimer = clearTimeout(@),
                                           !.kills = @ + 1,
                                           !.first = FirstOf(x, "timeout", TimeoutOf)],
                                 p))
    /\ UNCHANGED <<env, now, pc, response, execVars, bootVars, request, worker, sync, compare>>

\* Request bodies of the startup specification: those of BodyVals and a prompt of
\* whitespace only.
LaunchBodies == BodyVals \cup {" "}

\* x-api-key headers of the startup specification: those of HeaderVals, an empty
\* one and a proper prefix of the key.
LaunchHeaders == HeaderVals \cup {"", "k"}

LaunchNext ==
    \/ \E fsys \in FsVals : Boot(fsys)
    \/ HandleHealthz
    \/ \E h \in LaunchHeaders, b \in LaunchBodies : HandleRun(h, b)
    \/ Tick

\* The container from process start: startup, health probes and the /run request up
\* to the launch of its child.
LaunchSpec == LaunchInit /\ [][LaunchNext]_vars

\* The caller closes its connection while its request is awaiting the execution.
\* The handler has no listener for it: nothing of the execution changes.
CallerDisconnects ==
    /\ pc = "awaiting"
    /\ ~callerGone
    /\ callerGone' = TRUE
    /\ UNCHANGED <<env, now, pc, response, execVars, server, usingSubscription,
                   credFile, health, request, worker, execs, sync, compare>>

\* Environments of the service specification: both tokens or the refresh token only,
\* with and without an expiry, flag and API key set, no worker key.
ServiceEnvs ==
    {pe \in ParentEnvs :
        /\ pe["CLAUDE_USE_SUBSCRIPTION"] = "true"
        /\ pe["CLAUDE_REFRESH_TOKEN"] = "rt"
        /\ pe["ANTHROPIC_API_KEY"] = "sk"
        /\ pe["WORKER_API_KEY"] = UNSET}

ServiceInit ==
    /\ env \in ServiceEnvs
    /\ worker = NoWorker
    /\ Idle
    /\ server = "starting"
    /\ usingSubscription = FALSE
    /\ credFile = NoFile

ServiceNext ==
    \/ \E fsys \in FsVals : Boot(fsys)
    \/ HandleHealthz
    \/ CallerDisconnects
    \/ Next

\* The container from process start through a whole execution: startup, probes, the
\* /run request and every event of its child.
ServiceSpec == ServiceInit /\ [][ServiceNext]_vars

\* A listening container before the calls of executeClaudeCLI are made.
PairInit ==
    /\ env \in {pe \in ServiceEnvs : pe["CLAUDE_ACCESS_TOKEN"] = "at"}
    /\ worker = NoWorker
    /\ Idle
    /\ server = "listening"
    /\ usingSubscription = setupCredentials(env, now, "ok").ok
    /\ credFile = setupCredentials(env, now, "ok").file

PairNext ==
    \/ \E i \in ExecIds : StartExec(i)
    \/ \E i \in ExecIds, c \in Chunks : ExecStdout(i, c)
    \/ \E i \in ExecIds, c \in Chunks : ExecStderr(i, c)
    \/ \E i \in ExecIds : ExecError(i)
    \/ \E i \in ExecIds, code \in ExitCodes : ExecClose(i, code)
    \/ \E i \in ExecIds : ExecWarning(i)
    \/ \E i \in ExecIds : ExecTimeout(i)

\* Executions in flight at once, their events interleaved in every order.
PairSpec == PairInit /\ [][PairNext]_vars

\* The worker with its env bindings, before any container has been started.
WorkerInit ==
    /\ env = NoEnvVars
    /\ worker \in {[NoWorker EXCEPT !.env = we, !.bucket = b] :
                      we \in WorkerEnvs, b \in BucketVals}
    /\ Idle
    /\ server = "starting"
    /\ usingSubscription = FALSE
    /\ credFile = NoFile

WorkerNext ==
    \/ WorkerConstruct
    \/ WorkerHealth
    \/ \E h \in HeaderVals, b \in LaunchBodies, s \in SkillVals : WorkerQuery(h, b, s)
    \/ Tick

\* The worker's handlers and the Durable Object constructor.
WorkerSpec == WorkerInit /\ [][WorkerNext]_vars

\* The worker configurations of the route specification: every combination of the
\* two key bindings and of the Anthropic key, with OAuth tokens that are valid.
RouteEnvs ==
    {we \in WorkerEnvs : /\ we["CLAUDE_ACCESS_TOKEN"] = "at"
                         /\ we["CLAUDE_REFRESH_TOKEN"] = "rt"
                         /\ we["CLAUDE_EXPIRES_AT"] = "10001"}

RouteInit ==
    /\ env = NoEnvVars
    /\ worker \in {[NoWorker EXCEPT !.env = we, !.bucket = b] :
                      we \in RouteEnvs, b \in BucketVals}
    /\ Idle
    /\ server = "starting"
    /\ usingSubscription = FALSE
    /\ credFile = NoFile

RouteNext ==
    \/ \E p \in ListRoutes \cup ItemRoutes, h \in HeaderVals, n \in ItemVals :
          WorkerRoute(p, h, n)
    \/ \E h \in HeaderVals, b \in LaunchBodies, s \in SkillVals : WorkerQuery(h, b, s)

\* The authenticated routes of the worker.
RouteSpec == RouteInit /\ [][RouteNext]_vars

\* The prompt field of the body the worker posts to /run: the pieces of the enriched
\* prompt joined into one text.
ForwardedBody(pieces) ==
    IF Len(pieces) = 1 THEN pieces[1] ELSE "<skill context>hi"

\* instance.startAndWaitForPorts: the container process starts with the envVars of
\* the request and runs its startup up to listen.
StartContainer(fsys) ==
    /\ worker.query.forwarded
    /\ server = "starting"
    /\ env' = worker.query.envVars
    /\ server' = "listening"
    /\ usingSubscription' = setupCredentials(worker.query.envVars, now, fsys).ok
    /\ credFile' = setupCredentials(worker.query.envVars, now, fsys).file
    /\ UNCHANGED <<now, pc, response, execVars, health, callerGone, request, worker,
                   execs, sync, compare>>

\* instance.fetch of /run: a POST with a content-type header only and the enriched
\* prompt as its body.
ForwardRun ==
    /\ worker.query.forwarded
    /\ HandleRun(UNSET, ForwardedBody(worker.query.forwardedPrompt))

\* The worker configurations of the pipeline specification: a worker key, no legacy
\* key, every combination of the credentials.
PipelineEnvs ==
    {we \in WorkerEnvs : we["WORKER_API_KEY"] = "k1" /\ we["API_KEY"] = UNSET}

PipelineInit ==
    /\ env = NoEnvVars
    /\ worker \in {[NoWorker EXCEPT !.env = we, !.bucket = "ok"] : we \in PipelineEnvs}
    /\ Idle
    /\ server = "starting"
    /\ usingSubscription = FALSE
    /\ credFile = NoFile

PipelineNext ==
    \/ \E h \in {UNSET, "k1"}, s \in {UNSET, "s1"} : WorkerQuery(h, "hi", s)
    \/ StartContainer("ok")
    \/ ForwardRun
    \/ \E c \in Chunks : StdoutData(c)
    \/ \E c \in Chunks : StderrData(c)
    \/ ChildError
    \/ \E code \in ExitCodes : ChildExit(code)
    \/ \E code \in ExitCodes : ChildClose(code)
    \/ WarningFires
    \/ TimeoutFires
    \/ Tick

\* A /query request from the worker through the container to the CLI child.
PipelineSpec == PipelineInit /\ [][PipelineNext]_vars

\* The expiry setupCredentials writes in a container that is given the worker's own
\* token and expiry bindings.
ProvisionedExpiry(we, t) ==
    setupCredentials([v \in EnvVars |-> IF v \in WorkerVars THEN we[v] ELSE UNSET],
                     t, "ok").file.expiresAt

\* main() up to the index object it builds: the scan. The bucket is empty or holds
\* the files of an earlier run.
SyncScan(script, files, objects) ==
    /\ sync.status = "idle"
    /\ sync' = [NoSync EXCEPT !.script = script, !.status = "scanned", !.found = files,
                              !.objects = objects]
    /\ UNCHANGED <<env, now, pc, response, execVars, bootVars, request, worker, execs, compare>>

\* uploadToR2(indexPath, '<prefix>/index.json'): execSync throws when wrangler
\* fails, which ends main().
SyncUploadIndex(ok) ==
    /\ sync.status = "scanned"
    /\ sync' = IF ok
                THEN [sync EXCEPT !.status = "uploading",
                                  !.objects = @ \cup {IndexKey(sync.script)},
                                  !.index = [present |-> TRUE, count |-> Len(sync.found),
                                             paths |-> sync.found]]
                ELSE [sync EXCEPT !.status = "aborted"]
    /\ UNCHANGED <<env, now, pc, response, execVars, bootVars, request, worker, execs, compare>>

\* One turn of the upload loop.
SyncUploadFile(ok) ==
    /\ sync.status = "uploading"
    /\ sync.uploaded < Len(sync.found)
    /\ sync' = IF ok
                THEN [sync EXCEPT !.uploaded = @ + 1,
                                  !.objects = @ \cup {R2Key(sync.script,
                                                            sync.found[sync.uploaded + 1])}]
                ELSE [sync EXCEPT !.status = "aborted"]
    /\ UNCHANGED <<env, now, pc, response, execVars, bootVars, request, worker, execs, compare>>

\* The loop is over: "Sync complete!"
SyncComplete ==
    /\ sync.status = "uploading"
    /\ sync.uploaded = Len(sync.found)
    /\ sync' = [sync EXCEPT !.status = "done"]
    /\ UNCHANGED <<env, now, pc, response, execVars, bootVars, request, worker, execs, compare>>

\* Nothing is deployed or running: the state in which a script is run or a function
\* is applied on its own.
Standalone ==
    /\ env = NoEnvVars
    /\ worker = NoWorker
    /\ Idle
    /\ server = "starting"
    /\ usingSubscription = FALSE
    /\ credFile = NoFile

SyncNext ==
    \/ \E s \in SyncScripts, f \in ScanResults :
          \E o \in {{}, {R2Key(s, p) : p \in LocalFiles}} : SyncScan(s, f, o)
    \/ \E ok \in BOOLEAN : SyncUploadIndex(ok)
    \/ \E ok \in BOOLEAN : SyncUploadFile(ok)
    \/ SyncComplete

\* A run of sync-agents or sync-framework against the bucket.
SyncSpec == Standalone /\ [][SyncNext]_vars

\* Both copies of timingSafeEqual applied to one pair of strings.
CompareKeys(a, b) ==
    /\ ~compare.done
    /\ compare' = [done |-> TRUE, a |-> a, b |-> b,
                   container |-> timingSafeEqual(a, b),
                   worker |-> workerTimingSafeEqual(a, b)]
    /\ UNCHANGED <<env, now, pc, response, execVars, bootVars, request, worker, execs,
                   sync>>

CompareNext == \E a \in KeyStrings, b \in KeyStrings : CompareKeys(a, b)

\* timingSafeEqual over every pair of bounded strings.
CompareSpec == Standalone /\ [][CompareNext]_vars

\* Armed timers eventually fire.
FairSpec == Spec /\ WF_vars(WarningFires) /\ WF_vars(TimeoutFires)

\* ==================================================================== claims

\* The three credential variables of the subscription group.
OAuthVars == {"CLAUDE_ACCESS_TOKEN", "CLAUDE_REFRESH_TOKEN", "CLAUDE_EXPIRES_AT"}

\* The mode the child was launched in, read off the environment given to spawn.
LaunchedMode ==
    IF childEnv["CLAUDE_USE_SUBSCRIPTION"] = "true" THEN "subscription"
    ELSE IF Truthy(childEnv["ANTHROPIC_API_KEY"]) THEN "api_key"
    ELSE "none"

\* The expiry of the environment, when one is given, has passed at time t.
Expired(e, t) ==
    e["CLAUDE_EXPIRES_AT"] # UNSET /\ ~(NumberOf(e["CLAUDE_EXPIRES_AT"]) > t)

\* Access and refresh token are non-empty and the given expiry is after t.
SubscriptionValid(e, t) ==
    /\ Truthy(e["CLAUDE_ACCESS_TOKEN"])
    /\ Truthy(e["CLAUDE_REFRESH_TOKEN"])
    /\ e["CLAUDE_EXPIRES_AT"] # UNSET
    /\ NumberOf(e["CLAUDE_EXPIRES_AT"]) > t

\* Some stream or child event of the execution has been processed.
EventProcessed ==
    \/ stdout # <<>>
    \/ stderr # <<>>
    \/ child.errored
    \/ child.exit # "none"
    \/ child.closed

\* C1: once the first terminal event (close, error, hard-deadline firing) of an
\* execution has been observed, the promise holds the outcome that event's handler
\* produced, the caller was resumed exactly once, and the response written is the
\* one of that outcome: later terminal events change none of it.
C1_OutcomeFixedByFirstTerminal ==
    firstTerminal.event # "none" =>
        /\ promise = firstTerminal.outcome
        /\ results = 1
        /\ pc = "done"
        /\ response = ResponseOf(firstTerminal.outcome, env)

\* C1 witness: the hard deadline resolved the execution and both an 'error' and a
\* 'close' were delivered afterwards.
C1_Witness ==
    /\ firstTerminal.event = "timeout"
    /\ child.errored
    /\ child.closed
    /\ promise = TimeoutOf

\* C2: under fair timers every execution that is awaiting a result eventually gets
\* one, and whenever the hard deadline is the first terminal event the caller's
\* result is the timeout error.
C2_EventuallyResult ==
    /\ (pc = "awaiting") ~> (pc = "done" /\ Settled(promise) /\ response.status # 0)
    /\ [](firstTerminal.event = "timeout" =>
            (promise = TimeoutOf /\ response.status = 500 /\ response.kind = "timeout"))

\* C2 witness: neither close nor error was delivered and the hard deadline produced
\* the timeout response.
C2_Witness ==
    /\ timeoutTimer = "fired"
    /\ ~child.closed
    /\ ~child.errored
    /\ pc = "done"
    /\ response.kind = "timeout"

\* C3 (as claimed): when the hard deadline has fired (no close came before it: a close
\* cancels it), the result is the timeout error, SIGKILL was sent exactly once, the
\* warning timer is no longer armed and no timer ran after the execution resolved.
C3_HardDeadlineIsTimeout ==
    timeoutTimer = "fired" =>
        /\ promise = TimeoutOf
        /\ kills = 1
        /\ warningTimer # "armed"
        /\ lateTimers = 0

\* C4: when close is delivered before the hard deadline has fired, the hard-deadline
\* timer is cancelled, no kill signal is sent, no timeout is reported and exactly one
\* result was produced.
C4_CloseCancelsHardDeadline ==
    (child.closed /\ timeoutTimer # "fired") =>
        /\ timeoutTimer = "cleared"
        /\ kills = 0
        /\ promise.kind # "timeout"
        /\ Settled(promise)
        /\ results = 1
        /\ response.kind # "timeout"

\* C4 witness: the child closed after the warning had fired and before the hard
\* deadline.
C4_Witness ==
    /\ child.closed
    /\ warningTimer = "fired"
    /\ timeoutTimer = "cleared"
    /\ promise.kind = "success"

\* C5 (as claimed): no timer callback of an execution runs after its first terminal
\* event.
C5_NoTimerAfterFirstTerminal == lateTimers = 0

\* C6: the child's stdin is ended in the step that spawns it, so it is closed
\* whenever a child exists and before any of its events is processed.
C6_StdinClosedBeforeEvents ==
    /\ Spawned => stdinClosed
    /\ EventProcessed => stdinClosed

\* C6 witness: output was received and the child closed, with stdin closed.
C6_Witness ==
    /\ stdinClosed
    /\ stdout # <<>>
    /\ child.closed

\* C7 (as claimed): a child launched in subscription mode gets no API key, and a
\* child launched in api_key mode gets none of the three OAuth variables.
C7_CredentialGroupsExclusive ==
    Spawned =>
        /\ LaunchedMode = "subscription" => ~Truthy(childEnv["ANTHROPIC_API_KEY"])
        /\ LaunchedMode = "api_key" => \A v \in OAuthVars : childEnv[v] = UNSET

\* C8 (as claimed): a child is launched in subscription mode only if both tokens are
\* non-empty and the expiry, when given, is after the time of the request.
C8_ExpiredNeverProceeds ==
    (Spawned /\ LaunchedMode = "subscription") =>
        /\ Truthy(env["CLAUDE_ACCESS_TOKEN"])
        /\ Truthy(env["CLAUDE_REFRESH_TOKEN"])
        /\ ~Expired(env, startTime)

C10_NoCredentialsNoSpawn ==
    (~hasOAuth(env) /\ ~hasApiKey(env)) =>
        /\ spawns = 0
        /\ (pc = "done" /\ response.status \notin {400, 401}) => response.status = 500

\* The concatenation of a sequence of chunks, in order.
RECURSIVE Concat(_)
Concat(chunks) ==
    IF chunks = <<>> THEN <<>> ELSE Head(chunks) \o Concat(Tail(chunks))

\* s without its leading and trailing whitespace, stated by positions: the part of
\* s from its first to its last non-blank character.
Stripped(s) ==
    LET idx == {i \in 1..Len(s) : s[i] # " "}
    IN  IF idx = {} THEN <<>>
        ELSE SubSeq(s, CHOOSE i \in idx : \A j \in idx : i <= j,
                       CHOOSE i \in idx : \A j \in idx : i >= j)

\* C12: when the first terminal event of an execution is a close with exit code 0,
\* the result is Success and its text is the concatenation, in delivery order, of the
\* stdout chunks delivered before that close, without leading and trailing
\* whitespace; what was delivered on stderr has no part in it.
C12_SuccessTextIsTrimmedStdout ==
    (firstTerminal.event = "close" /\ firstTerminal.code = "0") =>
        /\ promise = SuccessOf(Stripped(Concat(delivered.out)))
        /\ response.status = 200
        /\ response.text = Stripped(Concat(delivered.out))

\* C12 witness: the child closed with code 0 after a blank and a non-blank stdout
\* chunk were delivered.
C12_Witness ==
    /\ firstTerminal.event = "close"
    /\ firstTerminal.code = "0"
    /\ delivered.out = << <<" ">>, <<"x">> >>
    /\ promise.text = <<"x">>

\* C13: when the first terminal event is a close with a code other than 0 (a missing
\* code included), the result is Failure with that code, and its excerpt is what was
\* delivered on stderr if that is non-empty and what was delivered on stdout
\* otherwise.
C13_FailureCarriesCodeAndExcerpt ==
    (firstTerminal.event = "close" /\ firstTerminal.code # "0") =>
        /\ promise.st = "rejected"
        /\ promise.kind = "failure"
        /\ promise.code = firstTerminal.code
        /\ promise.text = (IF Concat(delivered.err) # <<>>
                             THEN Concat(delivered.err)
                             ELSE Concat(delivered.out))

\* C13 witness: the child closed first, with a missing exit code, nothing on stderr
\* and a chunk on stdout, which is the excerpt.
C13_Witness ==
    /\ firstTerminal.event = "close"
    /\ firstTerminal.code = "null"
    /\ delivered.err = <<>>
    /\ delivered.out # <<>>
    /\ promise.kind = "failure"
    /\ promise.text = Concat(delivered.out)

\* C14: when 'error' is the first terminal event the result is the spawn error,
\* produced in the step that handles the event, and it stays the spawn error when a
\* close with a non-zero or missing code follows: it is never a Failure or a timeout.
C14_ErrorFirstIsSpawnError ==
    firstTerminal.event = "error" =>
        /\ promise = SpawnErrorOf
        /\ pc = "done"
        /\ response.status = 500
        /\ response.kind = "spawn"

\* C14 witness: 'error' came first and a close of a child that exited with code 1
\* followed it.
C14_Witness ==
    /\ firstTerminal.event = "error"
    /\ child.closed
    /\ child.exit = "1"
    /\ promise.kind = "spawn"

\* C15: a request that reached executeClaudeCLI has at most one response, has one as
\* soon as the execution has an outcome, and the response is 200 with success exactly
\* when the outcome is Success and 500 with the outcome's error when it is a Failure,
\* a timeout or a spawn error.
C15_OneResponsePerOutcome ==
    /\ results <= 1
    /\ (pc = "awaiting") => (~Settled(promise) /\ response = NoResponse)
    /\ (Spawned /\ Settled(promise)) =>
        /\ pc = "done"
        /\ results = 1
        /\ response.status \in {200, 500}
        /\ response.status = 200 <=> promise.st = "fulfilled"
        /\ response.status = 200 => response.kind = "success"
        /\ response.status = 500 =>
              /\ response.kind \in {"failure", "timeout", "spawn"}
              /\ response.kind = firstTerminal.outcome.kind
              /\ response.text = firstTerminal.outcome.text

\* C15 witness: a Failure outcome answered 500 with the stderr excerpt.
C15_Witness ==
    /\ pc = "done"
    /\ firstTerminal.event = "close"
    /\ firstTerminal.code = "1"
    /\ response.status = 500
    /\ response.kind = "failure"
    /\ response.text # <<>>
    /\ results = 1

\* C16 (as claimed): the authMode of a 200 response equals the mode the child of that
\* request was launched with.
C16_ReportedModeIsLaunchedMode ==
    (pc = "done" /\ response.status = 200) => response.authMode = LaunchedMode

\* The characters of a prompt string.
PromptChars(b) == CASE b = ""   -> <<>>
                    [] b = " "  -> <<" ">>
                    [] b = "hi" -> <<"h", "i">>
                    [] OTHER    -> <<"?">>

\* The body carries no prompt, or one that is empty or whitespace only.
BlankPrompt(b) == b = UNSET \/ Stripped(PromptChars(b)) = <<>>

\* C11 (as claimed): a /run request that passed the key check and whose prompt is
\* missing, empty or whitespace only is answered 400 and no child is spawned for it.
C11_BlankPromptRejected ==
    (request.handled /\ response.status # 401 /\ request.body # MALFORMED
       /\ BlankPrompt(request.body))
        => (response.status = 400 /\ spawns = 0)

\* C17 (as claimed): whenever a /run request would get past the credential check, the
\* authMode that /healthz reports is the mode a child launched in the same state
\* runs with.
C17_HealthModeIsLaunchMode ==
    (health.status = 200 /\ (handlerHasOAuth(env) \/ handlerHasApiKey(env)))
        => health.authMode = AuthMode(env)

\* C19: when the access token or the refresh token is absent at startup, the startup
\* completes with the server listening, setupCredentials has returned false and
\* written no credentials file, and a child launched afterwards never runs in
\* subscription mode: it runs in api_key mode when an API key is present.
C19_NoTokensNoSubscription ==
    (server = "listening"
       /\ (~Truthy(env["CLAUDE_ACCESS_TOKEN"]) \/ ~Truthy(env["CLAUDE_REFRESH_TOKEN"])))
        => /\ ~credFile.written
           /\ ~usingSubscription
           /\ Spawned => LaunchedMode # "subscription"
           /\ (Spawned /\ Truthy(env["ANTHROPIC_API_KEY"])) => LaunchedMode = "api_key"

\* C19 witness: started with an access token but no refresh token and the flag set,
\* the server launched a child in api_key mode.
C19_Witness ==
    /\ server = "listening"
    /\ Truthy(env["CLAUDE_ACCESS_TOKEN"])
    /\ ~Truthy(env["CLAUDE_REFRESH_TOKEN"])
    /\ env["CLAUDE_USE_SUBSCRIPTION"] = "true"
    /\ ~credFile.written
    /\ Spawned
    /\ LaunchedMode = "api_key"

\* C20 (as claimed): after a startup in which both tokens were present and writing the
\* credentials file failed, the server listens and no child launched afterwards runs
\* in subscription mode: with an API key present it runs in api_key mode.
C20_ProvisioningFailureFallsBack ==
    (server = "listening"
       /\ Truthy(env["CLAUDE_ACCESS_TOKEN"]) /\ Truthy(env["CLAUDE_REFRESH_TOKEN"])
       /\ ~credFile.written /\ Spawned)
        => /\ ~usingSubscription
           /\ LaunchedMode # "subscription"
           /\ Truthy(env["ANTHROPIC_API_KEY"]) => LaunchedMode = "api_key"

\* Both tokens are non-empty and the instant the expiry denotes is after t.
SubscriptionValidAt(we, t) ==
    /\ Truthy(we["CLAUDE_ACCESS_TOKEN"])
    /\ Truthy(we["CLAUDE_REFRESH_TOKEN"])
    /\ Truthy(we["CLAUDE_EXPIRES_AT"])
    /\ Gt(ExpiryInstant(we["CLAUDE_EXPIRES_AT"]), t)

\* C18 (as claimed): /health reports "subscription" exactly when both tokens are
\* non-empty and the expiry is after the time of the request, "api_key" exactly when
\* that does not hold and the API key is non-empty, "none" otherwise; /query and the
\* AgentContainer constructor decide subscription in exactly the same cases.
C18_WorkerModeTable ==
    /\ worker.health.status = 200 =>
          worker.health.authMode =
             (IF SubscriptionValidAt(worker.env, worker.health.at) THEN "subscription"
              ELSE IF Truthy(worker.env["ANTHROPIC_API_KEY"]) THEN "api_key"
              ELSE "none")
    /\ worker.query.decided =>
          (worker.query.hasOAuth <=> SubscriptionValidAt(worker.env, worker.query.at))
    /\ worker.ctor.built =>
          (worker.ctor.envVars["CLAUDE_USE_SUBSCRIPTION"] = "true"
             <=> SubscriptionValidAt(worker.env, worker.ctor.at))

\* C21: no /run request is handled, no probe is answered and no child is spawned
\* before setupCredentials has returned: while the startup code has not finished,
\* the request is untouched and no execution exists.
C21_ProvisionedBeforeRequests ==
    server = "starting" =>
        /\ ~request.handled
        /\ pc = "idle"
        /\ spawns = 0
        /\ response = NoResponse
        /\ health = NoHealth
        /\ ~credFile.written

\* C21 witness: the credentials file was written at startup and a child was then
\* spawned for a request.
C21_Witness ==
    /\ server = "listening"
    /\ credFile.written
    /\ request.handled
    /\ Spawned

\* C22: once the startup code has finished, no step (a /run request, a probe, the
\* spawn, a data, error, exit or close event, a timer) changes the credentials file.
C22_CredentialFileReadOnly ==
    [][server = "listening" => credFile' = credFile]_vars

\* C22 witness: a file written at startup, after a probe and an execution that went
\* through output, the warning and a close.
C22_Witness ==
    /\ credFile.written
    /\ health.status = 200
    /\ stdout # <<>>
    /\ warningTimer = "fired"
    /\ child.closed
    /\ pc = "done"

\* C23: the step in which the 10 s warning timer fires changes neither what is known
\* of the child, nor the two output buffers, nor the hard-deadline timer, nor the
\* outcome; it sends no signal and writes no response.
C23_WarningIsDiagnosticOnly ==
    [][(warningTimer = "armed" /\ warningTimer' = "fired")
         => UNCHANGED <<child, stdout, stderr, delivered, timeoutTimer, promise, kills,
                        pc, response, results, firstTerminal>>]_vars

\* C23 witness: the warning has fired on an execution that is still awaiting its
\* outcome, with output received and the hard deadline still armed.
C23_Witness ==
    /\ warningTimer = "fired"
    /\ timeoutTimer = "armed"
    /\ promise = Pending
    /\ pc = "awaiting"
    /\ stdout # <<>>
    /\ kills = 0

\* C24: with executions in flight at once, every step (a data, error, close, warning
\* or hard-deadline event of one of them) changes the buffers, timers, child and
\* result of at most that one execution, and the result each caller gets is the
\* outcome of the first terminal event of its own execution.
C24_ExecutionsIndependent ==
    /\ [][\A i \in ExecIds :
            execs'[i] # execs[i] => \A j \in ExecIds \ {i} : execs'[j] = execs[j]]_vars
    /\ [](\A i \in ExecIds :
            execs[i].first.event # "none" =>
                /\ execs[i].promise = execs[i].first.outcome
                /\ execs[i].result = execs[i].first.outcome
                /\ execs[i].results = 1)

\* C24 witness: both executions were in flight; one timed out and was killed, the
\* other received output and closed with success, its timers cancelled.
C24_Witness ==
    \E i, j \in ExecIds :
        /\ i # j
        /\ execs[i].result = TimeoutOf
        /\ execs[i].kills = 1
        /\ execs[j].result.kind = "success"
        /\ execs[j].stdout # <<>>
        /\ execs[j].kills = 0
        /\ execs[j].timeoutTimer = "cleared"

\* C25: a kill signal is sent to the child only in the step in which its own
\* hard-deadline timer fires, the signal is SIGKILL, it is sent at most once and never
\* after the child's close was observed; the caller closing its connection changes
\* nothing of the execution.
C25_DeadlineIsOnlyCancellation ==
    /\ [][signals' # signals =>
            /\ timeoutTimer = "armed"
            /\ timeoutTimer' = "fired"
            /\ ~child.closed
            /\ signals' = Append(signals, "SIGKILL")]_vars
    /\ [][callerGone' # callerGone =>
            UNCHANGED <<child, kills, signals, warningTimer, timeoutTimer, promise,
                        stdout, stderr>>]_vars
    /\ [](kills = Len(signals) /\ kills <= 1)
    /\ [](child.closed /\ timeoutTimer # "fired" => kills = 0)

\* C25 witness: the caller went away, the child ran on and was killed with SIGKILL
\* by the hard deadline.
C25_Witness ==
    /\ callerGone
    /\ timeoutTimer = "fired"
    /\ signals = <<"SIGKILL">>
    /\ ~child.closed

\* C26: with WORKER_API_KEY set, a /run request whose x-api-key header is not exactly
\* the key is answered 401 whatever its body and spawns nothing, and one whose header
\* is the key is not answered 401; with WORKER_API_KEY unset no /run request is
\* answered 401.
C26_RunRequiresApiKey ==
    request.handled =>
        IF Truthy(env["WORKER_API_KEY"])
          THEN /\ ~request.keyMatches =>
                    (response = ErrorResponse(401, "Unauthorized") /\ spawns = 0
                       /\ pc = "done")
               /\ request.keyMatches => response.status # 401
          ELSE response.status # 401

\* C26 witness: the key is set, the probe was answered, and a request carrying the key
\* spawned a child.
C26_Witness ==
    /\ Truthy(env["WORKER_API_KEY"])
    /\ request.keyMatches
    /\ Spawned
    /\ health.status = 200

\* C27: the credentials file setupCredentials writes holds exactly the environment's
\* access and refresh token, and as expiry the number itself for an epoch-millisecond
\* string, the instant denoted for an ISO timestamp, and the time of the call plus
\* 3600000 ms when CLAUDE_EXPIRES_AT is absent.
C27_StoredExpiryIsEpochMs ==
    credFile.written =>
        /\ credFile.accessToken = env["CLAUDE_ACCESS_TOKEN"]
        /\ credFile.refreshToken = env["CLAUDE_REFRESH_TOKEN"]
        /\ env["CLAUDE_EXPIRES_AT"] = "1" => credFile.expiresAt = Num(1)
        /\ env["CLAUDE_EXPIRES_AT"] = "10001" => credFile.expiresAt = Num(10001)
        /\ env["CLAUDE_EXPIRES_AT"] = "1970-01-01T00:00:10.001Z"
              => credFile.expiresAt = Num(10001)
        /\ env["CLAUDE_EXPIRES_AT"] = UNSET
              => credFile.expiresAt = Num(credFile.mtime + 3600000)

\* C27 witness: a file written from an ISO timestamp holds the instant it denotes.
C27_Witness ==
    /\ credFile.written
    /\ env["CLAUDE_EXPIRES_AT"] = "1970-01-01T00:00:10.001Z"
    /\ credFile.expiresAt = Num(10001)
    /\ credFile.accessToken = "at"

\* C28: the prompt /query forwards to the container is the skill context followed by
\* the original prompt when the requested skill is listed in the index and its file
\* is read, and exactly the original prompt when no skill is requested, the bucket is
\* not bound, the index is missing or does not list the skill, the file is missing or
\* a read throws; in all these cases the request is forwarded.
C28_SkillContextPrecedesPrompt ==
    LET q == worker.query
        found == /\ Truthy(q.skill)
                 /\ q.skill \in IndexedSkills
                 /\ worker.bucket = "ok"
    IN  /\ q.forwarded =>
              /\ Len(q.forwardedPrompt) >= 1
              /\ q.forwardedPrompt[Len(q.forwardedPrompt)] = q.prompt
              /\ found => /\ Len(q.forwardedPrompt) > 1
                          /\ SubSeq(q.forwardedPrompt, 1, Len(q.forwardedPrompt) - 1)
                                = SkillContextOf(q.skill)
              /\ ~found => q.forwardedPrompt = <<q.prompt>>
        /\ (q.handled /\ q.status = 0) => q.forwarded

\* C28 witness: a skill that is listed and read was put ahead of the prompt.
C28_Witness ==
    /\ worker.query.forwarded
    /\ worker.query.skill = "s1"
    /\ worker.bucket = "ok"
    /\ worker.query.prompt = "hi"
    /\ Len(worker.query.forwardedPrompt) > 1

\* C29: on the catalogue routes and on /query the worker reads the bucket and starts
\* the container only after the key check passed: with neither WORKER_API_KEY nor the
\* legacy API_KEY configured the answer is 500, with a key configured and an
\* x-api-key header that is missing or different the answer is 401, and in both
\* cases nothing was read and nothing forwarded; WORKER_API_KEY has precedence over
\* API_KEY.
C29_NothingBeforeKeyCheck ==
    LET r == worker.route
        q == worker.query
        apiKey == IF Truthy(worker.env["WORKER_API_KEY"]) THEN worker.env["WORKER_API_KEY"]
                  ELSE worker.env["API_KEY"]
    IN  /\ r.handled =>
              /\ ~Truthy(apiKey) => r.status = 500 /\ r.kind = "no_key" /\ r.reads = 0
              /\ (Truthy(apiKey) /\ ~r.keyMatches) => r.status = 401 /\ r.reads = 0
              /\ r.keyMatches <=> r.kind \notin {"no_key", "unauthorized"}
              /\ (r.reads > 0 \/ r.status = 200) => r.keyMatches
        /\ q.handled =>
              /\ ~Truthy(apiKey) => q.status = 500 /\ ~q.decided /\ ~q.forwarded /\ q.reads = 0
              /\ (Truthy(apiKey) /\ ~q.keyMatches) =>
                    q.status = 401 /\ ~q.decided /\ ~q.forwarded /\ q.reads = 0
              /\ (q.forwarded \/ q.reads > 0 \/ q.decided) => q.keyMatches
        /\ (r.keyMatches \/ q.keyMatches) => Truthy(apiKey)

\* C29 witness: with only the legacy key configured a route served an item to a
\* request carrying it, and /query refused a request whose key is missing or wrong.
C29_Witness ==
    /\ worker.route.handled
    /\ worker.route.kind = "item"
    /\ worker.route.reads = 2
    /\ ~Truthy(worker.env["WORKER_API_KEY"])
    /\ worker.env["API_KEY"] = "k2"
    /\ worker.query.handled
    /\ worker.query.status = 401

\* C30: the envVars the worker hands to the container carry CLAUDE_USE_SUBSCRIPTION
\* "true" exactly when the three OAuth variables are handed over non-empty, and
\* "false" with all three empty otherwise; a container started with exactly these
\* variables selects for its child, and reports in the /run response, the mode the
\* worker decided.
C30_ContainerFollowsWorkerMode ==
    LET q == worker.query
        ev == q.envVars
        tokens == {"CLAUDE_ACCESS_TOKEN", "CLAUDE_REFRESH_TOKEN", "CLAUDE_EXPIRES_AT"}
        workerMode == IF q.hasOAuth THEN "subscription" ELSE "api_key"
    IN  /\ q.forwarded =>
              /\ ev["CLAUDE_USE_SUBSCRIPTION"] \in {"true", "false"}
              /\ ev["CLAUDE_USE_SUBSCRIPTION"] = "true" <=> q.hasOAuth
              /\ ev["CLAUDE_USE_SUBSCRIPTION"] = "true" =>
                    \A v \in tokens : ev[v] \notin {UNSET, ""}
              /\ ev["CLAUDE_USE_SUBSCRIPTION"] = "false" => \A v \in tokens : ev[v] = ""
        /\ server = "listening" => q.forwarded /\ env = ev
        /\ spawns > 0 =>
              /\ childEnv["CLAUDE_USE_SUBSCRIPTION"]
                    = (IF workerMode = "subscription" THEN "true" ELSE "false")
              /\ workerMode = "subscription" =>
                    childEnv["CLAUDE_ACCESS_TOKEN"] = worker.env["CLAUDE_ACCESS_TOKEN"]
              /\ workerMode = "api_key" =>
                    /\ childEnv["CLAUDE_ACCESS_TOKEN"] = UNSET
                    /\ childEnv["ANTHROPIC_API_KEY"] = worker.env["ANTHROPIC_API_KEY"]
                    /\ childEnv["ANTHROPIC_API_KEY"] \notin {UNSET, ""}
        /\ request.handled => response.kind # "No authentication configured"
        /\ response.status = 200 => response.authMode = workerMode

\* C30 witness: a worker holding expired tokens and an API key decided against
\* OAuth, and the container answered the forwarded request in api_key mode.
C30_Witness ==
    /\ worker.env["CLAUDE_ACCESS_TOKEN"] = "at"
    /\ worker.env["CLAUDE_REFRESH_TOKEN"] = "rt"
    /\ worker.env["CLAUDE_EXPIRES_AT"] = "10001"
    /\ worker.query.forwarded
    /\ ~worker.query.hasOAuth
    /\ response.status = 200
    /\ response.authMode = "api_key"
    /\ childEnv["CLAUDE_USE_SUBSCRIPTION"] = "false"

\* C31: a /query request the worker accepted and forwarded is never answered 401 by
\* the container: the environment the worker hands over holds no WORKER_API_KEY, so
\* the container's key check passes although the forwarded request carries no
\* x-api-key header.
C31_ForwardedRequestPassesContainerKeyCheck ==
    /\ worker.query.forwarded => worker.query.envVars["WORKER_API_KEY"] = UNSET
    /\ server = "listening" => env["WORKER_API_KEY"] = UNSET
    /\ request.handled =>
          /\ worker.query.forwarded
          /\ worker.query.keyMatches
          /\ ~request.keyMatches
          /\ response.status # 401
          /\ response.kind # "Unauthorized"

\* C31 witness: a worker that requires a key forwarded a request, and the container
\* launched the CLI for it.
C31_Witness ==
    /\ worker.env["WORKER_API_KEY"] = "k1"
    /\ worker.query.keyMatches
    /\ request.handled
    /\ spawns > 0
    /\ pc = "awaiting"

\* C32 (as claimed): for every CLAUDE_EXPIRES_AT the provisioner accepts (an
\* epoch-millisecond string or an ISO timestamp) with both tokens configured, the
\* worker's three validity checks (/health, /query, the AgentContainer constructor)
\* classify the subscription as unexpired exactly when the expiry setupCredentials
\* writes for the same value is after the time of the check.
C32_WorkerAgreesWithProvisionedExpiry ==
    LET we == worker.env
        written == ProvisionedExpiry(we, now)
        accepted == /\ Truthy(we["CLAUDE_ACCESS_TOKEN"])
                    /\ Truthy(we["CLAUDE_REFRESH_TOKEN"])
                    /\ Truthy(we["CLAUDE_EXPIRES_AT"])
                    /\ ~written.nan
    IN  accepted =>
          /\ worker.health.status = 200 =>
                (worker.health.authMode = "subscription"
                   <=> Gt(written, worker.health.at))
          /\ worker.query.decided =>
                (worker.query.hasOAuth <=> Gt(written, worker.query.at))
          /\ worker.ctor.built =>
                (worker.ctor.envVars["CLAUDE_USE_SUBSCRIPTION"] = "true"
                   <=> Gt(written, worker.ctor.at))

\* C33 (as claimed): setupCredentials returns true exactly when it left the record
\* built from its inputs at the credential path, and false only when nothing was
\* written.
C33_TrueIffFileWritten ==
    server = "listening" =>
        /\ usingSubscription <=> credFile.written
        /\ credFile.written =>
              /\ credFile.accessToken = env["CLAUDE_ACCESS_TOKEN"]
              /\ credFile.refreshToken = env["CLAUDE_REFRESH_TOKEN"]
        /\ ~usingSubscription => credFile = NoFile

\* C34: the steps of the child's exit event and of stdout/stderr data change neither
\* the caller's result nor a timer; a result exists only once close, error or the
\* hard deadline has happened; and under fair timers an execution whose child has
\* exited with code 0 and for which neither close nor error is delivered ends with the
\* hard deadline fired, the timeout error as its result and one kill signal sent.
C34_OnlyCloseErrorDeadlineAreTerminal ==
    /\ [][(child'.exit # child.exit \/ delivered' # delivered) =>
            UNCHANGED <<promise, warningTimer, timeoutTimer, pc, response, results,
                        kills, signals, firstTerminal>>]_vars
    /\ [](Settled(promise) =>
            /\ firstTerminal.event \in {"close", "error", "timeout"}
            /\ child.closed \/ child.errored \/ timeoutTimer = "fired")
    /\ (Spawned /\ child.exit = "0") ~>
          (\/ child.closed
           \/ child.errored
           \/ /\ timeoutTimer = "fired"
              /\ promise = TimeoutOf
              /\ response.kind = "timeout"
              /\ signals = <<"SIGKILL">>)

\* C34 witness: the child exited with code 0 after writing output, no close and no
\* error came, and the hard deadline produced the timeout and the kill.
C34_Witness ==
    /\ child.exit = "0"
    /\ stdout # <<>>
    /\ ~child.closed
    /\ ~child.errored
    /\ timeoutTimer = "fired"
    /\ promise = TimeoutOf
    /\ kills = 1

C36_IndexedFilesArePresent ==
    /\ sync.index.present =>
          \A i \in DOMAIN sync.index.paths :
              LookupKey(sync.script, sync.index.paths[i]) \in sync.objects
    /\ sync.status = "done" =>
          /\ sync.index.present
          /\ sync.index.count = sync.uploaded

\* C37: timingSafeEqual(a, b) is true exactly when a and b have the same length and
\* the same code unit at every position, that is when they are the same string, and
\* the worker's copy and the container's copy return the same value.
C37_TimingSafeEqualIsEquality ==
    compare.done =>
        /\ compare.container <=>
              /\ Len(compare.a) = Len(compare.b)
              /\ \A i \in 1..Len(compare.a) : compare.a[i] = compare.b[i]
        /\ compare.container <=> compare.a = compare.b
        /\ compare.worker = compare.container

\* C37 witness: two strings of the same length that differ in their first position
\* only were compared and found different.
C37_Witness ==
    /\ compare.done
    /\ Len(compare.a) = 2
    /\ Len(compare.b) = 2
    /\ compare.a[1] # compare.b[1]
    /\ compare.a[2] = compare.b[2]
    /\ ~compare.container
    /\ ~compare.worker

====
